---------------------------- MODULE Spec2Model ----------------------------
(***************************************************************************)
(* A model of streamjson (src/streamjson.hpp, first generation, lines      *)
(* 1-757): the scalar classifier JsonValue, the push parser StreamJson,    *)
(* the listeners JSONListener / FilterListener / MultiListener and the     *)
(* bounded chunk assembler AutofeedStreamJson.                             *)
(*                                                                         *)
(* Bytes are one-character strings; a buffer is a sequence of bytes and a  *)
(* pointer into it is a zero-based offset from the buffer start.           *)
(***************************************************************************)
EXTENDS Integers, Sequences, FiniteSets, TLC

(***************************************************************************)
(* Bounds of the model.                                                    *)
(***************************************************************************)
\* template parameter CHUNK_SIZE of AutofeedStreamJson: the carry capacity
CHUNK_SIZE == 4
\* longest chunk handed to AutofeedStreamJson::feed in one call
MaxChunk == 4
\* width in bits of the modelled size_t (the arithmetic wraps modulo 2^SizeBits)
SizeBits == 16

SizeMod == 2 ^ SizeBits

(***************************************************************************)
(* Bytes.                                                                  *)
(***************************************************************************)
\* the terminating byte of a std::string / c_str()
NUL == "NUL"
\* a byte of buffer_ that was never written (std::array<char, N> member)
UNINIT == "?"
\* the values an indeterminate byte may turn out to hold
JunkBytes == {"7", "z"}

DigitSeq == <<"0", "1", "2", "3", "4", "5", "6", "7", "8", "9">>
IsDigit(c) == \E k \in 1..10 : DigitSeq[k] = c
DigitVal(c) == (CHOOSE k \in 1..10 : DigitSeq[k] = c) - 1

\* the least and the greatest of a set of positions
Smallest(S) == CHOOSE i \in S : \A j \in S : i <= j
Largest(S)  == CHOOSE i \in S : \A j \in S : i >= j

\* std::to_string of a size_t
RECURSIVE to_string(_)
to_string(n) ==
    IF n < 10 THEN <<DigitSeq[n + 1]>>
    ELSE to_string(n \div 10) \o <<DigitSeq[(n % 10) + 1]>>

\* the byte at offset i of memory mem; a byte that was never written, or that
\* lies beyond the modelled memory, is indeterminate and reads as junk
ByteAt(mem, i, junk) ==
    IF i >= 0 /\ i < Len(mem)
    THEN (IF mem[i + 1] = UNINIT THEN junk ELSE mem[i + 1])
    ELSE junk

\* the bytes mem[ptr .. ptr+n-1]
Span(mem, ptr, n, junk) == [k \in 1..n |-> ByteAt(mem, ptr + k - 1, junk)]

(***************************************************************************)
(* JsonValue: the scalar classifier.                                       *)
(***************************************************************************)
\* a JsonValue; only the payload selected by type is meaningful, the model
\* keeps the others at a fixed default.  floating is <<mantissa, decimals>>:
\* the value mantissa / 10^decimals, without trailing zero decimals.
MkValue(t, s, n, f, b) ==
    [type |-> t, string |-> s, integer |-> n, floating |-> f, boolean |-> b]
StringValue(s)  == MkValue("STRING", s, 0, <<0, 0>>, FALSE)
IntegerValue(n) == MkValue("INTEGER", <<>>, n, <<0, 0>>, FALSE)
FloatingValue(f) == MkValue("FLOATING", <<>>, 0, f, FALSE)
BooleanValue(b) == MkValue("BOOLEAN", <<>>, 0, <<0, 0>>, b)
InvalidValue    == MkValue("INVALID", <<>>, 0, <<0, 0>>, FALSE)

\* positions (zero-based) i <= size of d holding a quote; d has size+1 bytes
QuotePositions(d, size) == {i \in 0..size : d[i + 1] = "\""}

\* a parse_string that takes the closing quote into the text
parse_string_OffByOne(d, size) ==
    IF Cardinality(QuotePositions(d, size)) >= 2
    THEN [ret |-> TRUE,
          value |-> StringValue(SubSeq(d,
              Smallest(QuotePositions(d, size)) + 2,
              Smallest(QuotePositions(d, size)
                         \ {Smallest(QuotePositions(d, size))}) + 1))]
    ELSE [ret |-> FALSE, value |-> InvalidValue]

\* parse_string: the text between the first two quotes among d[0..size]
parse_string(d, size) ==
    LET qs == QuotePositions(d, size)
    IN  IF Cardinality(qs) >= 2
        THEN LET initial_quote_pos == CHOOSE i \in qs : \A j \in qs : i <= j
                 end_qoute_pos == CHOOSE i \in qs \ {initial_quote_pos} :
                                     \A j \in qs \ {initial_quote_pos} : i <= j
             IN  [ret |-> TRUE,
                  value |-> StringValue(SubSeq(d, initial_quote_pos + 2, end_qoute_pos))]
        ELSE [ret |-> FALSE, value |-> InvalidValue]

\* the number of leading spaces skipped by `while (*data == ' ' && size > 0)`
RECURSIVE SkipSpaces(_, _, _)
SkipSpaces(d, size, k) ==
    IF k < size /\ d[k + 1] = " " THEN SkipSpaces(d, size, k + 1) ELSE k

\* a digit loop that takes a '-' for a sign only before the first digit
RECURSIVE NumberLoop_LeadingSign(_, _, _, _)
NumberLoop_LeadingSign(d, size, i, acc) ==
    IF i >= size THEN acc
    ELSE LET c == d[i + 1]
         IN  IF c = "-"
             THEN NumberLoop_LeadingSign(d, size, i + 1,
                      [acc EXCEPT !.negative = (@ \/ acc.mant = 0)])
             ELSE IF c = "." THEN NumberLoop_LeadingSign(d, size, i + 1,
                                      [acc EXCEPT !.decimal = TRUE])
             ELSE IF IsDigit(c)
                  THEN NumberLoop_LeadingSign(d, size, i + 1,
                         [acc EXCEPT !.mant = @ * 10 + DigitVal(c),
                                     !.decimals = IF acc.decimal THEN @ + 1 ELSE @])
             ELSE IF c = " " THEN NumberLoop_LeadingSign(d, size, i + 1, acc)
             ELSE [acc EXCEPT !.error = TRUE]

\* the digit loop of parse_number over d[i..size-1]; acc holds the locals
RECURSIVE NumberLoop(_, _, _, _)
NumberLoop(d, size, i, acc) ==
    IF i >= size THEN acc
    ELSE LET c == d[i + 1]
         IN  IF c = "-" THEN NumberLoop(d, size, i + 1, [acc EXCEPT !.negative = TRUE])
             ELSE IF c = "." THEN NumberLoop(d, size, i + 1, [acc EXCEPT !.decimal = TRUE])
             ELSE IF IsDigit(c)
                  THEN NumberLoop(d, size, i + 1,
                         [acc EXCEPT !.mant = @ * 10 + DigitVal(c),
                                     !.decimals = IF acc.decimal THEN @ + 1 ELSE @])
             ELSE IF c = " " THEN NumberLoop(d, size, i + 1, acc)
             ELSE [acc EXCEPT !.error = TRUE]

\* a decimal fraction without trailing zero decimals (equal doubles, equal pairs)
RECURSIVE Normalise(_, _)
Normalise(mant, decimals) ==
    IF decimals > 0 /\ mant % 10 = 0 THEN Normalise(mant \div 10, decimals - 1)
    ELSE <<mant, decimals>>

\* parse_number
parse_number(d, size) ==
    LET k == SkipSpaces(d, size, 0)
        acc == NumberLoop(d, size, k,
                 [mant |-> 0, decimals |-> 0, negative |-> FALSE,
                  decimal |-> FALSE, error |-> FALSE])
        signed == IF acc.negative THEN 0 - acc.mant ELSE acc.mant
    IN  IF acc.error THEN [ret |-> FALSE, value |-> InvalidValue]
        ELSE IF acc.decimal
             THEN [ret |-> TRUE, value |-> FloatingValue(Normalise(signed, acc.decimals))]
             ELSE [ret |-> TRUE, value |-> IntegerValue(signed)]

\* the six spellings parse_boolean accepts, in the order it tries them
BooleanSpellings ==
    << <<"t","r","u","e">>, <<"f","a","l","s","e">>, <<"T","r","u","e">>,
       <<"F","a","l","s","e">>, <<"T","R","U","E">>, <<"F","A","L","S","E">> >>
BooleanOf == <<TRUE, FALSE, TRUE, FALSE, TRUE, FALSE>>

\* a parse_boolean that knows the lower-case spellings only
parse_boolean_LowerCase(d, size) ==
    IF \E i \in 1..2 :
           /\ size - SkipSpaces(d, size, 0) >= Len(BooleanSpellings[i])
           /\ SubSeq(d, SkipSpaces(d, size, 0) + 1,
                     SkipSpaces(d, size, 0) + Len(BooleanSpellings[i]))
                = BooleanSpellings[i]
    THEN [ret |-> TRUE,
          value |-> BooleanValue(d[SkipSpaces(d, size, 0) + 1] = "t")]
    ELSE [ret |-> FALSE, value |-> InvalidValue]

\* parse_boolean: after the leading spaces, a prefix that is one of the spellings
parse_boolean(d, size) ==
    LET k == SkipSpaces(d, size, 0)
        hits == {i \in 1..6 : /\ size - k >= Len(BooleanSpellings[i])
                              /\ SubSeq(d, k + 1, k + Len(BooleanSpellings[i]))
                                   = BooleanSpellings[i]}
    IN  IF hits # {}
        THEN [ret |-> TRUE,
              value |-> BooleanValue(BooleanOf[CHOOSE i \in hits : \A j \in hits : i <= j])]
        ELSE [ret |-> FALSE, value |-> InvalidValue]

\* JsonValue::JsonValue(data, size) on the bytes d = data[0..size]
JsonValue(d, size) ==
    LET s == parse_string(d, size)
        n == parse_number(d, size)
        b == parse_boolean(d, size)
    IN  IF s.ret THEN s.value
        ELSE IF n.ret THEN n.value
        ELSE IF b.ret THEN b.value
        ELSE InvalidValue


(***************************************************************************)
(* StreamJson: the push parser.                                            *)
(*                                                                         *)
(* A parser is a record of the members state_stack_, after_colon_,         *)
(* value_start_ (an offset from the start of the buffer being fed, or      *)
(* nullptr) and value_size_, together with what one call of feed produces: *)
(* events, the listener events in delivery order; ub, the kinds of         *)
(* undefined behaviour the call executed; halted, set when the call ends   *)
(* in a fault instead of returning.                                        *)
(***************************************************************************)
nullptr == -1

\* what state_stack_.back() may yield on an empty vector: any State value,
\* a byte that is no State value, or a fault
GarbageStates == {"IN_OBJECT", "IN_ARRAY", "IN_STRING", "OTHER", "CRASH"}

\* a listener event; text is used by key, value by value
Event(e)      == [ev |-> e, text |-> <<>>, value |-> InvalidValue]
KeyEvent(t)   == [ev |-> "key", text |-> t, value |-> InvalidValue]
ValueEvent(v) == [ev |-> "value", text |-> <<>>, value |-> v]

\* a StreamJson after construction or reset, with no call made yet
FreshParser ==
    [state_stack_ |-> <<>>, after_colon_ |-> FALSE,
     value_start_ |-> nullptr, value_size_ |-> 0,
     events |-> <<>>, ub |-> {}, halted |-> FALSE]

\* get_token
get_token(c) ==
    CASE c = "{"  -> "OBJECT_START"
      [] c = "}"  -> "OBJECT_END"
      [] c = "["  -> "ARRAY_START"
      [] c = "]"  -> "ARRAY_END"
      [] c = "\"" -> "QUOTE"
      [] c = ":"  -> "COLON"
      [] c = ","  -> "COMMA"
      [] OTHER    -> "NONE"

\* Every step below leaves a halted parser as it is: after a fault nothing
\* more of the call is executed.

\* listener_->on_...(): the event is delivered
Emit(s, e) == IF s.halted THEN s ELSE [s EXCEPT !.events = Append(@, e)]

\* the kinds of undefined read made when bytes ptr .. ptr+n-1 of mem are read;
\* cap is the number of bytes of the buffer object
ReadFlags(mem, cap, ptr, n) ==
    (IF \E k \in ptr..(ptr + n - 1) : k >= cap \/ k < 0 THEN {"oob_read"} ELSE {})
    \cup
    (IF \E k \in ptr..(ptr + n - 1) : k >= 0 /\ k < Len(mem) /\ mem[k + 1] = UNINIT
     THEN {"uninit_read"} ELSE {})

\* the number of bytes JsonValue(data, size) reads from data: parse_string
\* scans data[0..size] and stops at the second quote
BytesScanned(d, size) ==
    IF Cardinality(QuotePositions(d, size)) >= 2
    THEN 1 + (CHOOSE i \in QuotePositions(d, size) :
                  Cardinality({j \in QuotePositions(d, size) : j < i}) = 1)
    ELSE size + 1

\* on_value(JsonValue(data, size)) where d holds the bytes data[0..size]
EmitValueOf(s, d, size, flags) ==
    [s EXCEPT !.events = Append(@, ValueEvent(JsonValue(d, size))),
              !.ub = @ \cup flags]

\* listener_->on_value(JsonValue(ptr, size)) on the bytes of mem
EmitValue(s, mem, cap, ptr, size, junk) ==
    IF s.halted THEN s
    ELSE IF ptr = nullptr
    THEN [s EXCEPT !.ub = @ \cup {"null_read"}, !.halted = TRUE]
    ELSE EmitValueOf(s, Span(mem, ptr, size + 1, junk), size,
                     ReadFlags(mem, cap, ptr,
                               BytesScanned(Span(mem, ptr, size + 1, junk), size)))

\* listener_->on_key(std::string_view(ptr, size)); the listener copies the text
EmitKey(s, mem, cap, ptr, size, junk) ==
    IF s.halted THEN s
    ELSE [s EXCEPT !.events = Append(@, KeyEvent(Span(mem, ptr, size, junk))),
                   !.ub = @ \cup ReadFlags(mem, cap, ptr, size)]

\* the value state_stack_.back() yields
Back(s, g) ==
    IF s.state_stack_ = <<>> THEN g ELSE s.state_stack_[Len(s.state_stack_)]

\* the parser after evaluating state_stack_.back(): undefined on an empty vector
AfterBack(s, g) ==
    IF ~s.halted /\ s.state_stack_ = <<>>
    THEN [s EXCEPT !.ub = @ \cup {"empty_back"}, !.halted = (g = "CRASH")]
    ELSE s

\* state_stack_.pop_back(): undefined on an empty vector
PopBack(s) ==
    IF s.halted THEN s
    ELSE IF s.state_stack_ = <<>>
    THEN [s EXCEPT !.ub = @ \cup {"empty_pop"}, !.halted = TRUE]
    ELSE [s EXCEPT !.state_stack_ = SubSeq(@, 1, Len(@) - 1)]

\* state_stack_.push_back(state)
PushBack(s, state) ==
    IF s.halted THEN s ELSE [s EXCEPT !.state_stack_ = Append(@, state)]

\* value_start_ = ptr; value_size_ = 0;
SetSpan(s, ptr) ==
    IF s.halted THEN s ELSE [s EXCEPT !.value_start_ = ptr, !.value_size_ = 0]

\* after_colon_ = flag;
SetColon(s, flag) == IF s.halted THEN s ELSE [s EXCEPT !.after_colon_ = flag]

\* a closing quote that takes every string for a value
CloseString_AlwaysValue(s, mem, cap, junk) ==
    EmitValue(SetColon(s, FALSE), mem, cap, s.value_start_, s.value_size_, junk)

\* the closing quote of case Token::QUOTE, after the pop_back
CloseString(s, mem, cap, junk) ==
    IF s.after_colon_
    THEN EmitValue(SetColon(s, FALSE), mem, cap, s.value_start_, s.value_size_, junk)
    ELSE EmitKey(s, mem, cap, s.value_start_ + 1, s.value_size_ - 1, junk)

\* a quote that opens a string whatever is on top of the stack
OnQuote_AlwaysOpens(s, mem, cap, i, g, junk) ==
    PushBack(SetSpan(AfterBack(s, g), i), "IN_STRING")

\* case Token::QUOTE; i is the offset of the byte
OnQuote(s, mem, cap, i, g, junk) ==
    IF Back(s, g) = "IN_STRING"
    THEN SetSpan(CloseString(PopBack(AfterBack(s, g)), mem, cap, junk), nullptr)
    ELSE PushBack(SetSpan(AfterBack(s, g), i), "IN_STRING")

\* case Token::OBJECT_START
OnObjectStart(s) ==
    PushBack(Emit(SetColon(s, FALSE), Event("object_start")), "IN_OBJECT")

\* if (after_colon_) on_value(JsonValue(value_start_, value_size_ - 1))
FlushAfterColon(s, mem, cap, junk) ==
    IF s.after_colon_
    THEN EmitValue(s, mem, cap, s.value_start_, s.value_size_ - 1, junk)
    ELSE s

\* a closer that ends whatever container is open
CloseIf_Unchecked(s, g, state, e) ==
    PopBack(Emit(AfterBack(s, g), Event(e)))

\* if (state_stack_.back() == state) { on_..._end(); state_stack_.pop_back(); }
CloseIf(s, g, state, e) ==
    IF Back(s, g) = state
    THEN PopBack(Emit(AfterBack(s, g), Event(e)))
    ELSE AfterBack(s, g)

\* case Token::OBJECT_END
OnObjectEnd(s, mem, cap, g, junk) ==
    SetSpan(CloseIf(SetColon(FlushAfterColon(s, mem, cap, junk), FALSE),
                    g, "IN_OBJECT", "object_end"),
            nullptr)

\* case Token::ARRAY_START; i is the offset of the byte
OnArrayStart(s, i) ==
    PushBack(Emit(SetSpan(SetColon(s, FALSE), i + 1), Event("array_start")), "IN_ARRAY")

\* if (value_start_ != nullptr) { on_value(...); value_start_ = nullptr; ... }
FlushPending(s, mem, cap, junk) ==
    IF s.value_start_ # nullptr
    THEN SetSpan(EmitValue(s, mem, cap, s.value_start_, s.value_size_ - 1, junk),
                 nullptr)
    ELSE s

\* case Token::ARRAY_END
OnArrayEnd(s, mem, cap, g, junk) ==
    CloseIf(FlushPending(SetColon(s, FALSE), mem, cap, junk),
            g, "IN_ARRAY", "array_end")

\* case Token::COLON; i is the offset of the byte
OnColon(s, i) == SetSpan(SetColon(s, TRUE), i + 1)

\* the if / else if at the head of case Token::COMMA
FlushAtComma(s, mem, cap, i, g, junk) ==
    IF s.after_colon_
    THEN SetSpan(EmitValue(s, mem, cap, s.value_start_, s.value_size_ - 1, junk),
                 nullptr)
    ELSE IF Back(s, g) = "IN_ARRAY" /\ s.value_start_ # nullptr
    THEN SetSpan(EmitValue(AfterBack(s, g), mem, cap, s.value_start_,
                           s.value_size_ - 1, junk),
                 i + 1)
    ELSE AfterBack(s, g)

\* if (state_stack_.back() == State::IN_ARRAY) on_array_next_element();
NextIfInArray(s, g) ==
    IF Back(s, g) = "IN_ARRAY"
    THEN Emit(AfterBack(s, g), Event("array_next_element"))
    ELSE AfterBack(s, g)

\* a comma that announces the next element before it flushes the pending one
OnComma_NextFirst(s, mem, cap, i, g, junk) ==
    SetColon(FlushAtComma(NextIfInArray(s, g), mem, cap, i, g, junk), FALSE)

\* case Token::COMMA; i is the offset of the byte
OnComma(s, mem, cap, i, g, junk) ==
    SetColon(NextIfInArray(FlushAtComma(s, mem, cap, i, g, junk), g), FALSE)

\* the switch of StreamJson::feed on the token of the byte at offset i
OnToken(s, token, mem, cap, i, g, junk) ==
    CASE token = "QUOTE"        -> OnQuote(s, mem, cap, i, g, junk)
      [] token = "OBJECT_START" -> OnObjectStart(s)
      [] token = "OBJECT_END"   -> OnObjectEnd(s, mem, cap, g, junk)
      [] token = "ARRAY_START"  -> OnArrayStart(s, i)
      [] token = "ARRAY_END"    -> OnArrayEnd(s, mem, cap, g, junk)
      [] token = "COLON"        -> OnColon(s, i)
      [] token = "COMMA"        -> OnComma(s, mem, cap, i, g, junk)
      [] OTHER                  -> s

\* a loop body without the in-string test: every byte goes to the switch
CountThenSwitch_NoStringTest(s, token, mem, cap, i, g, junk) ==
    OnToken(s, token, mem, cap, i, g, junk)

\* value_size_++, then the switch unless the byte lies inside a string
CountThenSwitch(s, token, mem, cap, i, g, junk) ==
    IF s.state_stack_ # <<>> /\ Back(s, g) = "IN_STRING" /\ token # "QUOTE"
    THEN s
    ELSE OnToken(s, token, mem, cap, i, g, junk)

\* one turn of the for loop of StreamJson::feed, on the byte at offset i
FeedByte(s, mem, cap, i, g, junk) ==
    CountThenSwitch([s EXCEPT !.value_size_ = (@ + 1) % SizeMod],
                    get_token(ByteAt(mem, i, junk)), mem, cap, i, g, junk)

\* the for loop of StreamJson::feed from offset i
RECURSIVE FeedLoop(_, _, _, _, _, _, _)
FeedLoop(s, mem, cap, size, i, g, junk) ==
    IF i >= size \/ s.halted THEN s
    ELSE FeedLoop(FeedByte(s, mem, cap, i, g, junk), mem, cap, size, i + 1, g, junk)

\* if (offset != 0) { value_start_ = chunk; value_size_ = offset - 1; }
Resume(s, offset) ==
    IF offset # 0
    THEN [s EXCEPT !.value_start_ = 0, !.value_size_ = offset - 1]
    ELSE s

\* size_t allow_to_remove = value_start_ ? value_start_ - chunk : size;
AllowToRemove(s, size) ==
    [parser |-> s,
     allow_to_remove |-> IF s.value_start_ # nullptr THEN s.value_start_ ELSE size]

\* StreamJson::feed(chunk, size, offset) on a parser s whose chunk is mem:
\* the parser after the call and the offset returned
StreamJsonFeed(s, mem, cap, size, offset, g, junk) ==
    AllowToRemove(FeedLoop(Resume(s, offset), mem, cap, size, offset, g, junk), size)

\* StreamJson::reset: the members cleared (the listener is rebound by the caller)
StreamJsonReset(s) ==
    [s EXCEPT !.state_stack_ = <<>>, !.after_colon_ = FALSE,
              !.value_start_ = nullptr, !.value_size_ = 0]

\* the events a freshly constructed StreamJson delivers when the bytes of doc
\* (a std::string: the bytes and the terminating NUL) are fed in one call
WholeFeed(doc, g, junk) ==
    StreamJsonFeed(FreshParser, doc \o <<NUL>>, Len(doc) + 1, Len(doc), 0, g, junk).parser

(***************************************************************************)
(* JSONListener, FilterListener, MultiListener.                            *)
(*                                                                         *)
(* A listener is a record of the members key_, aggregate_key_ (byte        *)
(* sequences), array_depth_ (a sequence of indices) and filter_ (the       *)
(* pattern of a FilterListener).                                           *)
(***************************************************************************)
\* a FilterListener after construction
FreshListener(filter) ==
    [filter_ |-> filter, key_ |-> <<>>, aggregate_key_ |-> <<>>, array_depth_ |-> <<>>]

\* the zero-based positions of s at which the bytes of pat begin
Occurrences(s, pat) ==
    {i \in 0..(Len(s) - Len(pat)) : SubSeq(s, i + 1, i + Len(pat)) = pat}

\* aggregate_key_ += (aggregate_key_.size() ? "." : ""); then key_ or "_"
PushSegment(l) ==
    l.aggregate_key_ \o (IF Len(l.aggregate_key_) > 0 THEN <<".">> ELSE <<>>)
                     \o (IF l.key_ = <<>> THEN <<"_">> ELSE l.key_)

\* aggregate_key_ cut at its last "." (rfind), or cleared when it has none
PopSegment(agg) ==
    LET dots == Occurrences(agg, <<".">>)
    IN  IF dots # {} THEN SubSeq(agg, 1, Largest(dots)) ELSE <<>>

\* JSONListener::on_object_start
on_object_start(l) ==
    [l EXCEPT !.aggregate_key_ = PushSegment(l), !.key_ = <<>>]

\* JSONListener::on_object_end
on_object_end(l) ==
    [l EXCEPT !.aggregate_key_ = PopSegment(@)]

\* JSONListener::on_array_start
on_array_start(l) ==
    [l EXCEPT !.array_depth_ = Append(@, 0),
              !.aggregate_key_ = PushSegment(l) \o <<"[">> \o to_string(0) \o <<"]">>,
              !.key_ = <<>>]

\* JSONListener::on_array_end; array_depth_ is not empty
on_array_end(l) ==
    [l EXCEPT !.array_depth_ = SubSeq(@, 1, Len(@) - 1),
              !.aggregate_key_ = PopSegment(@)]

\* a listener that adds the new index after the old one
on_array_next_element_Appends(l) ==
    [l EXCEPT !.array_depth_ = [@ EXCEPT ![Len(@)] = @ + 1],
              !.aggregate_key_ = @ \o <<"[">>
                                   \o to_string(l.array_depth_[Len(l.array_depth_)] + 1)
                                   \o <<"]">>]

\* a listener that does not count the elements of its arrays
on_array_next_element_Frozen(l) == l

\* JSONListener::on_array_next_element; array_depth_ is not empty
on_array_next_element(l) ==
    LET n == Len(l.array_depth_)
        next == l.array_depth_[n] + 1
        brackets == Occurrences(l.aggregate_key_, <<"[">>)
        \* substr(0, rfind("[")): the whole string when there is no "["
        kept == IF brackets # {} THEN SubSeq(l.aggregate_key_, 1, Largest(brackets))
                ELSE l.aggregate_key_
    IN  [l EXCEPT !.array_depth_ = [@ EXCEPT ![n] = next],
                  !.aggregate_key_ = kept \o <<"[">> \o to_string(next) \o <<"]">>]

\* JSONListener::on_key
on_key(l, string) == [l EXCEPT !.key_ = string]

\* JSONListener::on_value
JSONListener_on_value(l) == [l EXCEPT !.key_ = <<>>]

\* the "find and replace" loop of FilterListener::on_value: the first "_." is
\* erased until none is left
RECURSIVE RemovePlaceholders(_)
RemovePlaceholders(query) ==
    LET found == Occurrences(query, <<"_", ".">>)
    IN  IF found = {} THEN query
        ELSE LET pos == Smallest(found)
             IN  RemovePlaceholders(SubSeq(query, 1, pos) \o
                                    SubSeq(query, pos + 3, Len(query)))

\* the query FilterListener::on_value composes
Query(l) == RemovePlaceholders(l.aggregate_key_ \o <<".">> \o l.key_)

\* the byte at zero-based position p of a c_str(): the terminator past its end
CharAt(s, p) == IF p < Len(s) THEN s[p + 1] ELSE NUL

\* the matching loop of FilterListener::on_value with filter_ptr at fp and
\* query_ptr at qp: matched, and overrun when a `while (*p != ']')` scan runs
\* past the terminator of its string
RECURSIVE MatchLoop(_, _, _, _)
MatchLoop(filter, query, fp, qp) ==
    IF ~(fp < Len(filter) /\ qp < Len(query))
    THEN [matched |-> TRUE, overrun |-> FALSE]
    ELSE IF CharAt(filter, fp) = "[" /\ CharAt(query, qp) = "["
    THEN IF CharAt(filter, fp + 1) = "*"
         THEN LET fclose == {i \in Occurrences(filter, <<"]">>) : i >= fp}
                  qclose == {i \in Occurrences(query, <<"]">>) : i >= qp}
              IN  IF fclose = {} \/ qclose = {}
                  THEN [matched |-> TRUE, overrun |-> TRUE]
                  ELSE MatchLoop(filter, query, Smallest(fclose) + 1, Smallest(qclose) + 1)
         ELSE MatchLoop(filter, query, fp + 1, qp + 1)
    ELSE IF CharAt(filter, fp) = CharAt(query, qp) \/ CharAt(filter, fp) = "*"
    THEN MatchLoop(filter, query, fp + 1, qp + 1)
    ELSE [matched |-> FALSE, overrun |-> FALSE]

\* whether FilterListener::on_value invokes the callback for this query
Matches(filter, query) == MatchLoop(filter, query, 0, 0)

\* one event handled by a plain JSONListener l, whose array_depth_ is not
\* empty when the event is array_end or array_next_element
JSONListenerEvent(l, e) ==
    CASE e.ev = "object_start" -> on_object_start(l)
      [] e.ev = "object_end"   -> on_object_end(l)
      [] e.ev = "array_start"  -> on_array_start(l)
      [] e.ev = "array_end"    -> on_array_end(l)
      [] e.ev = "array_next_element" -> on_array_next_element(l)
      [] e.ev = "key"          -> on_key(l, e.text)
      [] e.ev = "value"        -> JSONListener_on_value(l)

\* a FilterListener that forwards a value to JSONListener::on_value only
\* when its callback did not fire
ListenerEvent_ForwardsUnmatched(l, id, e) ==
    LET quiet(l2) == [l |-> l2, calls |-> <<>>, probes |-> <<>>, halted |-> FALSE]
        fault == [l |-> l, calls |-> <<>>, probes |-> <<>>, halted |-> TRUE]
    IN  IF e.ev = "value"
        THEN LET query == Query(l)
                 m == Matches(l.filter_, query)
             IN  IF m.overrun THEN fault
                 ELSE [l |-> IF m.matched THEN l ELSE JSONListener_on_value(l),
                       calls |-> IF m.matched
                                 THEN << [listener |-> id, key |-> query,
                                          value |-> e.value,
                                          depths |-> l.array_depth_] >>
                                 ELSE <<>>,
                       probes |-> << [listener |-> id, query |-> query,
                                      matched |-> m.matched] >>,
                       halted |-> FALSE]
        ELSE IF e.ev \in {"array_end", "array_next_element"} /\ l.array_depth_ = <<>>
        THEN fault
        ELSE quiet(JSONListenerEvent(l, e))

\* one event handled by the FilterListener l, the id-th listener of its
\* multiplexer: the listener afterwards, the callback invocations made
\* (key, value, depths), the query composed by on_value with its outcome, and
\* halted when the handler ends in a fault (pop_back / back on an empty
\* array_depth_, a scan past a terminator)
ListenerEvent(l, id, e) ==
    LET quiet(l2) == [l |-> l2, calls |-> <<>>, probes |-> <<>>, halted |-> FALSE]
        fault == [l |-> l, calls |-> <<>>, probes |-> <<>>, halted |-> TRUE]
    IN  CASE e.ev = "object_start" -> quiet(on_object_start(l))
          [] e.ev = "object_end"   -> quiet(on_object_end(l))
          [] e.ev = "array_start"  -> quiet(on_array_start(l))
          [] e.ev = "array_end"    ->
                IF l.array_depth_ = <<>> THEN fault ELSE quiet(on_array_end(l))
          [] e.ev = "array_next_element" ->
                IF l.array_depth_ = <<>> THEN fault ELSE quiet(on_array_next_element(l))
          [] e.ev = "key"          -> quiet(on_key(l, e.text))
          [] e.ev = "value"        ->
                LET query == Query(l)
                    m == Matches(l.filter_, query)
                IN  IF m.overrun THEN fault
                    ELSE [l |-> JSONListener_on_value(l),
                          calls |-> IF m.matched
                                    THEN << [listener |-> id, key |-> query,
                                             value |-> e.value,
                                             depths |-> l.array_depth_] >>
                                    ELSE <<>>,
                          probes |-> << [listener |-> id, query |-> query,
                                         matched |-> m.matched] >>,
                          halted |-> FALSE]

\* a multiplexer that goes through its listeners last to first
RECURSIVE MultiListenerEvent_Reversed(_, _, _)
MultiListenerEvent_Reversed(m, e, id) ==
    IF id > Len(m.listeners_) \/ m.halted THEN m
    ELSE LET at == Len(m.listeners_) - id + 1
             r == ListenerEvent(m.listeners_[at], at, e)
         IN  MultiListenerEvent_Reversed(
                 [listeners_ |-> [m.listeners_ EXCEPT ![at] = r.l],
                  calls |-> m.calls \o r.calls,
                  probes |-> m.probes \o r.probes,
                  halted |-> r.halted], e, id + 1)

\* a multiplexer that hands the event to its first listener only
MultiListenerEvent_FirstOnly(m, e, id) ==
    IF m.listeners_ = <<>> \/ m.halted THEN m
    ELSE [listeners_ |-> [m.listeners_ EXCEPT
                             ![1] = ListenerEvent(m.listeners_[1], 1, e).l],
          calls |-> m.calls \o ListenerEvent(m.listeners_[1], 1, e).calls,
          probes |-> m.probes \o ListenerEvent(m.listeners_[1], 1, e).probes,
          halted |-> ListenerEvent(m.listeners_[1], 1, e).halted]

\* MultiListener::on_...: the event goes to listeners_[id], listeners_[id+1], ...
\* m is [listeners_, calls, probes, halted]
RECURSIVE MultiListenerEvent(_, _, _)
MultiListenerEvent(m, e, id) ==
    IF id > Len(m.listeners_) \/ m.halted THEN m
    ELSE LET r == ListenerEvent(m.listeners_[id], id, e)
         IN  MultiListenerEvent(
                 [listeners_ |-> [m.listeners_ EXCEPT ![id] = r.l],
                  calls |-> m.calls \o r.calls,
                  probes |-> m.probes \o r.probes,
                  halted |-> r.halted], e, id + 1)

\* the events es[i..] delivered in order to the multiplexer
RECURSIVE Deliver(_, _, _)
Deliver(m, es, i) ==
    IF i > Len(es) \/ m.halted THEN m
    ELSE Deliver(MultiListenerEvent(m, es[i], 1), es, i + 1)

\* a multiplexer over the listeners ls, with nothing delivered yet
Multi(ls) == [listeners_ |-> ls, calls |-> <<>>, probes |-> <<>>, halted |-> FALSE]

(***************************************************************************)
(* AutofeedStreamJson: the bounded chunk assembler.                        *)
(*                                                                         *)
(* buffer_ is modelled with the bytes of memory that follow it, MemSize    *)
(* bytes in all, so that a copy past the end of the array lands somewhere. *)
(***************************************************************************)
MemSize == CHUNK_SIZE + MaxChunk

\* what a memcpy past the end of buffer_ may do: land in bytes the program
\* does not use, or end the program
OverflowOutcomes == {"PADDING", "CRASH"}

\* memcpy(buffer_.data() + at, chunk, size)
Memcpy(mem, at, chunk) ==
    [k \in 1..Len(mem) |->
        IF k - 1 >= at /\ k - 1 < at + Len(chunk) THEN chunk[k - at] ELSE mem[k]]

\* memmove(buffer_.data(), buffer_.data() + src, count)
Memmove(mem, src, count) ==
    [k \in 1..Len(mem) |->
        IF k - 1 < count
        THEN (IF src + k <= Len(mem) THEN mem[src + k] ELSE UNINIT)
        ELSE mem[k]]

\* a failure test that lets a retained tail of exactly CHUNK_SIZE bytes pass
Overflowed_Strict(next_offset) == next_offset > CHUNK_SIZE

\* a guard that lets a failed assembler go on feeding
Healthy_Always(a) == TRUE

\* the failure test at the end of AutofeedStreamJson::feed
Overflowed(next_offset) == next_offset >= CHUNK_SIZE

\* if (!failed_)
Healthy(a) == ~a.failed_

\* the undefined behaviour of the two copies of AutofeedStreamJson::feed: the
\* chunk copied past the end of buffer_, and a move that reads or writes past it
CopyFlags(past, size, to_remove, count) ==
    (IF past THEN {"memcpy_oob_write"} ELSE {})
    \cup (IF count <= size + 1 /\ to_remove + count > CHUNK_SIZE
          THEN {"memmove_oob_read"} ELSE {})
    \cup (IF count <= size + 1 /\ count > CHUNK_SIZE
          THEN {"memmove_oob_write"} ELSE {})
    \cup (IF count > size + 1 THEN {"memmove_wild"} ELSE {})

\* the parser as a call of AutofeedStreamJson::feed finds it: the events and
\* the undefined behaviour recorded are those of the call
AtCall(p) == [p EXCEPT !.events = <<>>, !.ub = {}]

\* the record of a call in which StreamJson::feed did not return
NoFeedCall == [made |-> FALSE, size |-> 0, to_remove |-> 0]

\* AutofeedStreamJson::feed after StreamJson::feed returned r for the buffer
\* mem of length size: the memmove, next_offset_ and failed_.  count is the
\* third argument of the memmove; when size - to_remove + 1 wrapped, the move
\* runs through all of memory and the program ends.
AfterStreamJsonFeed(a, r, mem, size, past, count) ==
    IF r.parser.halted
    THEN [parser |-> [r.parser EXCEPT !.ub = @ \cup CopyFlags(past, 0, 0, 0)],
          buffer_ |-> mem, next_offset_ |-> a.next_offset_, failed_ |-> a.failed_,
          call |-> NoFeedCall]
    ELSE IF count > size + 1
    THEN [parser |-> [r.parser EXCEPT
                         !.ub = @ \cup CopyFlags(past, size, r.allow_to_remove, count),
                         !.halted = TRUE],
          buffer_ |-> mem, next_offset_ |-> a.next_offset_, failed_ |-> a.failed_,
          call |-> [made |-> TRUE, size |-> size, to_remove |-> r.allow_to_remove]]
    ELSE [parser |-> [r.parser EXCEPT
                         !.ub = @ \cup CopyFlags(past, size, r.allow_to_remove, count)],
          buffer_ |-> Memmove(mem, r.allow_to_remove, count),
          next_offset_ |-> (size - r.allow_to_remove) % SizeMod,
          failed_ |-> Overflowed((size - r.allow_to_remove) % SizeMod),
          call |-> [made |-> TRUE, size |-> size, to_remove |-> r.allow_to_remove]]

\* size - to_remove + 1, the third argument of the memmove
MoveCount(size, r) == (size - r.allow_to_remove + 1) % SizeMod

\* the tail of AutofeedStreamJson::feed from the value r that
\* StreamJson::feed returned
AfterReturn(a, r, mem, size, past) ==
    AfterStreamJsonFeed(a, r, mem, size, past, MoveCount(size, r))

\* the call of StreamJson::feed in AutofeedStreamJson::feed and what follows it
FeedBuffer(a, mem, size, past, g, junk) ==
    AfterReturn(a,
        StreamJsonFeed(AtCall(a.parser), mem, CHUNK_SIZE, size, a.next_offset_, g, junk),
        mem, size, past)

\* AutofeedStreamJson::feed(chunk, size) on the assembler a = [parser,
\* buffer_, next_offset_, failed_]; parser.events are the events of this call.
\* call records the StreamJson::feed call made: its length and what it returned.
AutofeedFeed(a, chunk, g, junk, oob) ==
    IF ~Healthy(a)
    THEN [parser |-> AtCall(a.parser), buffer_ |-> a.buffer_,
          next_offset_ |-> a.next_offset_, failed_ |-> a.failed_,
          call |-> NoFeedCall]
    ELSE IF a.next_offset_ + Len(chunk) > CHUNK_SIZE /\ oob = "CRASH"
    THEN [parser |-> [AtCall(a.parser) EXCEPT !.ub = {"memcpy_oob_write"},
                                               !.halted = TRUE],
          buffer_ |-> a.buffer_, next_offset_ |-> a.next_offset_,
          failed_ |-> a.failed_, call |-> NoFeedCall]
    ELSE FeedBuffer(a, Memcpy(a.buffer_, a.next_offset_, chunk),
                    (Len(chunk) + a.next_offset_) % SizeMod,
                    a.next_offset_ + Len(chunk) > CHUNK_SIZE, g, junk)

\* a reset that forgets to clear failed_
AutofeedReset_KeepsFailed(a) ==
    [parser |-> StreamJsonReset(a.parser),
     buffer_ |-> [k \in 1..Len(a.buffer_) |-> UNINIT],
     next_offset_ |-> 0, failed_ |-> a.failed_]

\* AutofeedStreamJson::reset.  It leaves buffer_ as it is; no byte written
\* before the reset means anything after it, and the model lets them all be
\* indeterminate again
AutofeedReset(a) ==
    [parser |-> StreamJsonReset(a.parser),
     buffer_ |-> [k \in 1..Len(a.buffer_) |-> UNINIT],
     next_offset_ |-> 0, failed_ |-> FALSE]

(***************************************************************************)
(* The documents fed.                                                      *)
(***************************************************************************)
\* {"a":12,"b":3}
DocPair ==
    <<"{", "\"", "a", "\"", ":", "1", "2", ",", "\"", "b", "\"", ":", "3", "}">>
\* {"a":12345,"b":1}
DocLong ==
    <<"{", "\"", "a", "\"", ":", "1", "2", "3", "4", "5", ",", "\"", "b", "\"", ":",
       "1", "}">>
\* {"a":1234567}
DocLonger ==
    <<"{", "\"", "a", "\"", ":", "1", "2", "3", "4", "5", "6", "7", "}">>
\* {"abcdef":1}
DocLongKey ==
    <<"{", "\"", "a", "b", "c", "d", "e", "f", "\"", ":", "1", "}">>
\* [1,2]
DocArray ==
    <<"[", "1", ",", "2", "]">>
\* [[0],1]
DocNested ==
    <<"[", "[", "0", "]", ",", "1", "]">>
\* ["a",1]
DocMixed ==
    <<"[", "\"", "a", "\"", ",", "1", "]">>
\* {"a":[1,2]}
DocObjArray ==
    <<"{", "\"", "a", "\"", ":", "[", "1", ",", "2", "]", "}">>
\* {"a":"bc"}
DocString ==
    <<"{", "\"", "a", "\"", ":", "\"", "b", "c", "\"", "}">>
\* {"a":true}
DocBool ==
    <<"{", "\"", "a", "\"", ":", "t", "r", "u", "e", "}">>
\* []
DocEmptyArray ==
    <<"[", "]">>
\* {"k":{"a":1}}
DocInner ==
    <<"{", "\"", "k", "\"", ":", "{", "\"", "a", "\"", ":", "1", "}", "}">>
\* { "a" : 1 }
DocSpaces ==
    <<"{", " ", "\"", "a", "\"", " ", ":", " ", "1", " ", "}">>
\* }
DocCloser ==
    <<"}">>
\* ,
DocComma ==
    <<",">>
\* "a"
DocTopString ==
    <<"\"", "a", "\"">>
\* [1]]
DocExtraCloser ==
    <<"[", "1", "]", "]">>
\* [-1.5]
DocFloat ==
    <<"[", "-", "1", ".", "5", "]">>
\* {"a":"b"}
DocShortString ==
    <<"{", "\"", "a", "\"", ":", "\"", "b", "\"", "}">>
\* [1}]
DocWrongBrace ==
    <<"[", "1", "}", "]">>
\* {"a":1]}
DocWrongBracket ==
    <<"{", "\"", "a", "\"", ":", "1", "]", "}">>
\* {"[":"},"}
DocOpaque ==
    <<"{", "\"", "[", "\"", ":", "\"", "}", ",", "\"", "}">>

\* the documents fed in chunks through AutofeedStreamJson
Docs ==
    {DocPair, DocLong, DocLonger, DocLongKey, DocArray,
     DocNested, DocMixed, DocObjArray, DocString, DocBool,
     DocEmptyArray, DocInner, DocSpaces, DocCloser, DocComma,
     DocTopString, DocExtraCloser, DocFloat,
     DocShortString, DocOpaque, DocWrongBrace, DocWrongBracket}

\* {"a":{"b":[1,2,3]}}
DocPath ==
    <<"{", "\"", "a", "\"", ":", "{", "\"", "b", "\"", ":", "[", "1", ",", "2", ",",
       "3", "]", "}", "}">>
\* {"jobs":[{"status":"done","conclusion":"success"}]}
DocJobs ==
    <<"{", "\"", "j", "o", "b", "s", "\"", ":", "[", "{", "\"", "s", "t", "a", "t",
       "u", "s", "\"", ":", "\"", "d", "o", "n", "e", "\"", ",", "\"", "c", "o", "n",
       "c", "l", "u", "s", "i", "o", "n", "\"", ":", "\"", "s", "u", "c", "c", "e",
       "s", "s", "\"", "}", "]", "}">>
\* {"a":{"b":1}}
DocAB ==
    <<"{", "\"", "a", "\"", ":", "{", "\"", "b", "\"", ":", "1", "}", "}">>
\* {"a":{"b":{"c":1}}}
DocABC ==
    <<"{", "\"", "a", "\"", ":", "{", "\"", "b", "\"", ":", "{", "\"", "c", "\"", ":",
       "1", "}", "}", "}">>
\* {"a":1}
DocA ==
    <<"{", "\"", "a", "\"", ":", "1", "}">>
\* {"ab":{"x":1}}
DocLongSeg ==
    <<"{", "\"", "a", "b", "\"", ":", "{", "\"", "x", "\"", ":", "1", "}", "}">>
\* {"a":{"x":1}}
DocShortSeg ==
    <<"{", "\"", "a", "\"", ":", "{", "\"", "x", "\"", ":", "1", "}", "}">>
\* {"a":[0,1,2,3,4,5,6,7,8,9,10]}
DocEleven ==
    <<"{", "\"", "a", "\"", ":", "[", "0", ",", "1", ",", "2", ",", "3", ",", "4", ",",
       "5", ",", "6", ",", "7", ",", "8", ",", "9", ",", "1", "0", "]", "}">>
\* {"a":[{"b":1},{"b":2}]}
DocElems ==
    <<"{", "\"", "a", "\"", ":", "[", "{", "\"", "b", "\"", ":", "1", "}", ",", "{",
       "\"", "b", "\"", ":", "2", "}", "]", "}">>
\* {"a":{"b":2,"c":"3"}}
DocTwoKeys ==
    <<"{", "\"", "a", "\"", ":", "{", "\"", "b", "\"", ":", "2", ",", "\"", "c", "\"",
       ":", "\"", "3", "\"", "}", "}">>
\* {"a":[[1],[2,3]]}
DocMatrix ==
    <<"{", "\"", "a", "\"", ":", "[", "[", "1", "]", ",", "[", "2", ",", "3", "]",
       "]", "}">>

\* the documents fed in one call to a StreamJson with filters attached
FilterDocs ==
    {DocMatrix, DocPath, DocJobs, DocAB, DocABC, DocA,
     DocLongSeg, DocShortSeg, DocEleven, DocElems, DocTwoKeys,
     DocArray, DocNested, DocMixed, DocObjArray, DocString,
     DocBool, DocEmptyArray, DocInner, DocSpaces}

\* a.b[*]
PatPath ==
    <<"a", ".", "b", "[", "*", "]">>
\* jobs[*].status
PatStatus ==
    <<"j", "o", "b", "s", "[", "*", "]", ".", "s", "t", "a", "t", "u", "s">>
\* jobs[*].conclusion
PatConclusion ==
    <<"j", "o", "b", "s", "[", "*", "]", ".", "c", "o", "n", "c", "l", "u", "s", "i",
       "o", "n">>
\* a.*
PatStar ==
    <<"a", ".", "*">>
\* *.x
PatStarX ==
    <<"*", ".", "x">>
\* a[*]
PatIndex ==
    <<"a", "[", "*", "]">>
\* a[1]
PatIndexOne ==
    <<"a", "[", "1", "]">>
\* a[*].b
PatElemB ==
    <<"a", "[", "*", "]", ".", "b">>
\* a.b
PatAB ==
    <<"a", ".", "b">>

\* the patterns FilterListeners are constructed with
Patterns ==
    {PatPath, PatStatus, PatConclusion, PatStar, PatStarX,
     PatIndex, PatIndexOne, PatElemB, PatAB}

\* the listeners a MultiListener is constructed with: one filter, the two
\* job filters, or two filters that fire on the same value
Setups ==
    {<<FreshListener(f)>> : f \in Patterns}
    \cup {<<FreshListener(PatStatus), FreshListener(PatConclusion)>>,
          <<FreshListener(PatStar), FreshListener(PatAB)>>}

(***************************************************************************)
(* State.                                                                  *)
(***************************************************************************)
VARIABLES
    state_stack_,   \* StreamJson::state_stack_
    after_colon_,   \* StreamJson::after_colon_
    value_start_,   \* StreamJson::value_start_
    value_size_,    \* StreamJson::value_size_
    buffer_,        \* AutofeedStreamJson::buffer_ and the memory behind it
    next_offset_,   \* AutofeedStreamJson::next_offset_
    failed_,        \* AutofeedStreamJson::failed_
    listeners_,     \* MultiListener::listeners_, with the listeners it points to
    events,         \* the events delivered to listener_ since construction or reset
    calls,          \* the callback invocations made by the last operation
    probes,         \* the queries composed by on_value in the last operation
    doc,            \* the document the caller is feeding
    pos,            \* the number of its bytes the caller has handed over
    last,           \* the last operation: what was called, and from where
    ub,             \* the undefined behaviour executed since construction or reset
    halted,         \* the program ended in a fault
    classified      \* the JsonValue under construction: its arguments and itself

vars == <<state_stack_, after_colon_, value_start_, value_size_, buffer_,
          next_offset_, failed_, listeners_, events, calls, probes, doc, pos,
          last, ub, halted, classified>>

\* the parser members as a record, with nothing yet produced by a call
Parser ==
    [state_stack_ |-> state_stack_, after_colon_ |-> after_colon_,
     value_start_ |-> value_start_, value_size_ |-> value_size_,
     events |-> <<>>, ub |-> {}, halted |-> FALSE]

Assembler ==
    [parser |-> Parser, buffer_ |-> buffer_, next_offset_ |-> next_offset_,
     failed_ |-> failed_]

\* no JsonValue is under construction outside a call of feed
Unclassified == [data |-> <<NUL>>, size |-> 0, value |-> InvalidValue, done |-> FALSE]

\* the state after construction, about to feed document d to listeners ls
Constructed(d, ls) ==
    /\ state_stack_ = <<>>
    /\ after_colon_ = FALSE
    /\ value_start_ = nullptr
    /\ value_size_ = 0
    /\ buffer_ = [k \in 1..MemSize |-> UNINIT]
    /\ next_offset_ = 0
    /\ failed_ = FALSE
    /\ listeners_ = ls
    /\ events = <<>>
    /\ calls = <<>>
    /\ probes = <<>>
    /\ doc = d
    /\ pos = 0
    /\ last = [op |-> "construct", from |-> 0, before |-> 0, was_failed |-> FALSE,
               call |-> NoFeedCall]
    /\ ub = {}
    /\ halted = FALSE
    /\ classified = Unclassified

\* the parser members after a call that left the parser p
ParserBecomes(p) ==
    /\ state_stack_' = p.state_stack_
    /\ after_colon_' = p.after_colon_
    /\ value_start_' = p.value_start_
    /\ value_size_' = p.value_size_

(***************************************************************************)
(* Spec: a document is fed in chunks through an AutofeedStreamJson whose   *)
(* listener records the events.                                            *)
(***************************************************************************)
Init == \E d \in Docs : Constructed(d, <<>>)

\* the caller hands the next n bytes of the document to AutofeedStreamJson::feed
Feed(n, g, junk, oob) ==
    /\ ~halted
    /\ pos + n <= Len(doc)
    /\ \E r \in {AutofeedFeed(Assembler, SubSeq(doc, pos + 1, pos + n), g, junk, oob)} :
           /\ ParserBecomes(r.parser)
           /\ buffer_' = r.buffer_
           /\ next_offset_' = r.next_offset_
           /\ failed_' = r.failed_
           /\ events' = events \o r.parser.events
           /\ ub' = ub \cup r.parser.ub
           /\ halted' = r.parser.halted
           /\ last' = [op |-> "feed", from |-> pos, before |-> last.from,
                       was_failed |-> failed_, call |-> r.call]
    /\ pos' = pos + n
    /\ calls' = <<>>
    /\ probes' = <<>>
    /\ UNCHANGED <<listeners_, doc, classified>>

\* AutofeedStreamJson::reset(listener) with a fresh recording listener; the
\* caller starts over with document d
Reset(d) ==
    /\ ~halted
    /\ \E r \in {AutofeedReset(Assembler)} :
           /\ ParserBecomes(r.parser)
           /\ buffer_' = r.buffer_
           /\ next_offset_' = r.next_offset_
           /\ failed_' = r.failed_
    /\ events' = <<>>
    /\ ub' = {}
    /\ doc' = d
    /\ pos' = 0
    /\ last' = [op |-> "reset", from |-> 0, before |-> 0, was_failed |-> failed_,
                call |-> NoFeedCall]
    /\ calls' = <<>>
    /\ probes' = <<>>
    /\ UNCHANGED <<listeners_, halted, classified>>

Next ==
    \/ \E n \in 1..MaxChunk, g \in GarbageStates, junk \in JunkBytes,
          oob \in OverflowOutcomes : Feed(n, g, junk, oob)
    \/ \E d \in Docs : Reset(d)

Spec == Init /\ [][Next]_vars

(***************************************************************************)
(* DocSpec: a document is fed in one call to a StreamJson whose listener   *)
(* is a MultiListener over FilterListeners.                                *)
(***************************************************************************)
DocInit == \E d \in FilterDocs, ls \in Setups : Constructed(d, ls)

\* parser.feed(doc.data(), doc.size()), the events going to the MultiListener
FeedDocument(g, junk) ==
    /\ ~halted
    /\ pos = 0
    /\ \E r \in {StreamJsonFeed(Parser, doc \o <<NUL>>, Len(doc) + 1, Len(doc), 0,
                               g, junk)} :
       \E m \in {Deliver(Multi(listeners_), r.parser.events, 1)} :
           /\ ParserBecomes(r.parser)
           /\ events' = events \o r.parser.events
           /\ ub' = ub \cup r.parser.ub
           /\ halted' = (r.parser.halted \/ m.halted)
           /\ listeners_' = m.listeners_
           /\ calls' = m.calls
           /\ probes' = m.probes
           /\ last' = [op |-> "feed", from |-> 0, before |-> 0, was_failed |-> FALSE,
                       call |-> [made |-> TRUE, size |-> Len(doc),
                                 to_remove |-> r.allow_to_remove]]
    /\ pos' = Len(doc)
    /\ UNCHANGED <<buffer_, next_offset_, failed_, doc, classified>>

\* StreamJson::reset(listener) with a MultiListener over freshly constructed
\* listeners ls; the caller starts over with document d
ResetDocument(d, ls) ==
    /\ ~halted
    /\ ParserBecomes(StreamJsonReset(Parser))
    /\ listeners_' = ls
    /\ events' = <<>>
    /\ ub' = {}
    /\ doc' = d
    /\ pos' = 0
    /\ last' = [op |-> "reset", from |-> 0, before |-> 0, was_failed |-> FALSE,
                call |-> NoFeedCall]
    /\ calls' = <<>>
    /\ probes' = <<>>
    /\ UNCHANGED <<buffer_, next_offset_, failed_, halted, classified>>

DocNext ==
    \/ \E g \in GarbageStates, junk \in JunkBytes : FeedDocument(g, junk)
    \/ \E d \in FilterDocs, ls \in Setups : ResetDocument(d, ls)

DocSpec == DocInit /\ [][DocNext]_vars


(***************************************************************************)
(* ValueSpec: JsonValue objects are constructed from spans of bytes, as    *)
(* StreamJson::feed constructs one for every value it delivers.            *)
(***************************************************************************)

\* the longest span classified, and the most leading spaces before a boolean
MaxSpan == 3
MaxLead == 2

\* the bytes spans are made of
SpanBytes == {"\"", "4", "2", "-", ".", " ", "t", ","}

\* the bytes that follow a bare scalar in a document
Terminators == {",", "}", "]"}

RECURSIVE Spaces(_)
Spaces(k) == IF k = 0 THEN <<>> ELSE <<" ">> \o Spaces(k - 1)

\* the arguments JsonValue is constructed with: the bytes data[0..size], of
\* which data[size] follows the span.  All short byte sequences, and the
\* boolean spellings after some spaces.
SpanArguments ==
    {[data |-> d, size |-> Len(d) - 1] :
        d \in UNION {[1..n -> SpanBytes] : n \in 1..(MaxSpan + 1)}}
    \cup
    {[data |-> Spaces(k) \o BooleanSpellings[i] \o <<c>>,
      size |-> k + Len(BooleanSpellings[i])] :
        k \in 0..MaxLead, i \in 1..6, c \in Terminators}

ValueInit ==
    /\ state_stack_ = <<>>
    /\ after_colon_ = FALSE
    /\ value_start_ = nullptr
    /\ value_size_ = 0
    /\ buffer_ = [k \in 1..MemSize |-> UNINIT]
    /\ next_offset_ = 0
    /\ failed_ = FALSE
    /\ listeners_ = <<>>
    /\ events = <<>>
    /\ calls = <<>>
    /\ probes = <<>>
    /\ doc = <<>>
    /\ pos = 0
    /\ last = [op |-> "construct", from |-> 0, before |-> 0, was_failed |-> FALSE,
               call |-> NoFeedCall]
    /\ ub = {}
    /\ halted = FALSE
    /\ \E a \in SpanArguments :
           classified = [data |-> a.data, size |-> a.size, value |-> InvalidValue,
                         done |-> FALSE]

\* JsonValue::JsonValue(data, size) runs
Classify ==
    /\ ~classified.done
    /\ classified' = [classified EXCEPT
                         !.value = JsonValue(classified.data, classified.size),
                         !.done = TRUE]
    /\ UNCHANGED <<state_stack_, after_colon_, value_start_, value_size_, buffer_,
                   next_offset_, failed_, listeners_, events, calls, probes, doc,
                   pos, last, ub, halted>>

ValueNext == Classify

ValueSpec == ValueInit /\ [][ValueNext]_vars

(***************************************************************************)
(* ListenerSpec: events are delivered one at a time, in any order and with *)
(* any of a few key texts, to a MultiListener over two FilterListeners.    *)
(***************************************************************************)
\* the longest sequence of events delivered
MaxEvents == 5

\* the key texts delivered: a, a.b and a_
KeyTexts == {<<"a">>, <<"a", ".", "b">>, <<"a", "_">>}

\* the two listeners: one filter that matches whatever lies under a, one
\* that matches next to nothing
ListenerSetup == <<FreshListener(PatStar), FreshListener(PatStatus)>>

ListenerInit == Constructed(<<>>, ListenerSetup)

\* the caller invokes the handler of event e on the MultiListener
Handle(e) ==
    /\ ~halted
    /\ Len(events) < MaxEvents
    /\ \E m \in {MultiListenerEvent(Multi(listeners_), e, 1)} :
           /\ listeners_' = m.listeners_
           /\ calls' = m.calls
           /\ probes' = m.probes
           /\ halted' = m.halted
    /\ events' = Append(events, e)
    /\ last' = [op |-> "event", from |-> 0, before |-> 0, was_failed |-> FALSE,
                call |-> NoFeedCall]
    /\ UNCHANGED <<state_stack_, after_colon_, value_start_, value_size_, buffer_,
                   next_offset_, failed_, doc, pos, ub, classified>>

DeliverObjectStart == Handle(Event("object_start"))
DeliverObjectEnd == Handle(Event("object_end"))
DeliverArrayStart == Handle(Event("array_start"))
DeliverArrayEnd == Handle(Event("array_end"))
DeliverArrayNextElement == Handle(Event("array_next_element"))
DeliverKey(string) == Handle(KeyEvent(string))
DeliverValue(value) == Handle(ValueEvent(value))

ListenerNext ==
    \/ DeliverObjectStart
    \/ DeliverObjectEnd
    \/ DeliverArrayStart
    \/ DeliverArrayEnd
    \/ DeliverArrayNextElement
    \/ \E string \in KeyTexts : DeliverKey(string)
    \/ DeliverValue(IntegerValue(1))

ListenerSpec == ListenerInit /\ [][ListenerNext]_vars

(***************************************************************************)
(* The properties checked.                                                 *)
(***************************************************************************)

\* the bytes that end a bare literal or separate tokens
Delimiters == {"{", "}", "[", "]", ":", ",", " "}

\* the length of the longest token of d: a maximal run of bytes free of
\* delimiters (a string with its quotes, a bare literal)
LongestToken(d) ==
    Largest({0} \cup {n \in 1..Len(d) : \E i \in 1..(Len(d) - n + 1) :
                         \A k \in i..(i + n - 1) : d[k] \notin Delimiters})

\* bytes lo..hi of d are a bare value literal: they follow a colon, hold no
\* delimiter and no quote, and a delimiter follows them
IsLiteral(d, lo, hi) ==
    /\ 1 < lo /\ lo <= hi /\ hi < Len(d)
    /\ d[lo - 1] = ":"
    /\ \A k \in lo..hi : d[k] \notin Delimiters \cup {"\""}
    /\ d[hi + 1] \in Delimiters

\* the last two operations were feeds, of the chunks doc[last.before+1 ..
\* last.from] and doc[last.from+1 .. pos], which between them hold every byte
\* of the literal lo..hi, some in each
SplitAcrossTwoChunks(lo, hi) ==
    /\ last.op = "feed"
    /\ last.before < lo /\ lo <= last.from
    /\ last.from < hi /\ hi <= pos

\* the keys and the values the callbacks of the last operation were given
CallKeys == [i \in 1..Len(calls) |-> calls[i].key]
CallValues == [i \in 1..Len(calls) |-> calls[i].value]

\* the filter the listener of probe or call c was constructed with
FilterOf(c) == listeners_[c.listener].filter_

\* the document has been fed in one call to a parser whose MultiListener
\* holds listeners with the filters fs, and the call returned
FedTo(d, fs) ==
    /\ doc = d
    /\ last.op = "feed"
    /\ ~halted
    /\ Len(listeners_) = Len(fs)
    /\ \A i \in 1..Len(fs) : listeners_[i].filter_ = fs[i]

\* C1: once a document whose longest token is shorter than CHUNK_SIZE has
\* been fed chunk by chunk through AutofeedStreamJson::feed, with no undefined
\* behaviour and no failure on the way, the listener has received the events
\* that one StreamJson::feed call on the whole document delivers.
C1_ChunkInvariance ==
    ( /\ last.op = "feed" /\ pos = Len(doc)
      /\ ~halted /\ ~failed_ /\ ub = {}
      /\ LongestToken(doc) < CHUNK_SIZE )
    => \A g \in GarbageStates, junk \in JunkBytes :
           WholeFeed(doc, g, junk).ub = {}
           => events = WholeFeed(doc, g, junk).events

\* C2: the offset StreamJson::feed returns to AutofeedStreamJson::feed lies
\* between 0 and the length it was called with, in every call made before any
\* undefined behaviour.
C2_ReturnedOffsetInRange ==
    (last.op = "feed" /\ last.call.made /\ ub \subseteq {"memmove_wild"})
    => (0 <= last.call.to_remove /\ last.call.to_remove <= last.call.size)

\* C3: after the second of two feeds that between them carry a value literal
\* longer than CHUNK_SIZE, the assembler is failed.
C3_OverflowFails ==
    \A lo \in 1..Len(doc), hi \in 1..Len(doc) :
        ( /\ IsLiteral(doc, lo, hi) /\ hi - lo + 1 > CHUNK_SIZE
          /\ SplitAcrossTwoChunks(lo, hi)
          /\ ~halted )
        => failed_


\* C4: a feed made while failed_ is set delivers no event and leaves
\* next_offset_, buffer_, state_stack_, after_colon_, value_start_ and
\* value_size_ as they were, and failed_ set; only reset clears failed_.
C4_FailedIsFrozen ==
    [][ /\ (failed_ /\ last'.op = "feed")
            => /\ events' = events
               /\ UNCHANGED <<next_offset_, buffer_, state_stack_, after_colon_,
                              value_start_, value_size_>>
               /\ failed_'
        /\ (failed_ /\ ~failed_') => last'.op = "reset" ]_vars

\* C4 happens: a chunk was fed to an assembler that had already failed
C4_Witness == last.op = "feed" /\ last.was_failed /\ failed_ /\ pos > last.from

\* C5: after every feed and every reset, failed_ is set or next_offset_ is
\* less than CHUNK_SIZE.
C5_CarryInvariant ==
    (last.op \in {"feed", "reset"}) => (failed_ \/ next_offset_ < CHUNK_SIZE)

\* C5 happens: a feed left the assembler healthy with the longest tail the
\* buffer may keep
C5_Witness ==
    last.op = "feed" /\ last.call.made /\ ~halted /\ ~failed_
    /\ next_offset_ = CHUNK_SIZE - 1

\* a.b[0], a.b[1], a.b[2]
PathsOfDocPath ==
    << <<"a", ".", "b", "[", "0", "]">>,
       <<"a", ".", "b", "[", "1", "]">>,
       <<"a", ".", "b", "[", "2", "]">> >>

\* C6: {"a":{"b":[1,2,3]}} fed to a FilterListener with pattern a.b[*]
\* invokes the callback three times, with Integer 1, 2, 3 and the paths
\* a.b[0], a.b[1], a.b[2].
C6_ArrayElementsOfPath ==
    FedTo(DocPath, <<PatPath>>)
    => /\ CallValues = <<IntegerValue(1), IntegerValue(2), IntegerValue(3)>>
       /\ CallKeys = PathsOfDocPath

\* C7: a FilterListener with pattern a.* invokes its callback for the query
\* a.b, and for neither a.b.c nor a.
C7_ExhaustedTogether ==
    (last.op = "feed" /\ ~halted)
    => \A i \in 1..Len(probes) :
           FilterOf(probes[i]) = PatStar
           => /\ probes[i].query = <<"a", ".", "b">> => probes[i].matched
              /\ probes[i].query \in {<<"a", ".", "b", ".", "c">>, <<"a">>}
                     => ~probes[i].matched

\* C8: {"jobs":[{"status":"done","conclusion":"success"}]} fed to a
\* MultiListener over filters jobs[*].status and jobs[*].conclusion invokes
\* each callback once: the first with String done, the second with String
\* success.
C8_FanOut ==
    FedTo(DocJobs, <<PatStatus, PatConclusion>>)
    => /\ Len(calls) = 2
       /\ \E i, j \in 1..Len(calls) :
              /\ calls[i].listener = 1
              /\ calls[i].value = StringValue(<<"d", "o", "n", "e">>)
              /\ calls[j].listener = 2
              /\ calls[j].value = StringValue(<<"s", "u", "c", "c", "e", "s", "s">>)

\* C8 happens: the jobs document went through the two filters, each of which
\* saw both fields
C8_Witness ==
    /\ FedTo(DocJobs, <<PatStatus, PatConclusion>>)
    /\ Len(probes) = 4
    /\ Len(calls) > 0

\* C9: a FilterListener with pattern *.x invokes its callback for the query
\* ab.x as it does for a.x.
C9_StarMatchesSegment ==
    (last.op = "feed" /\ ~halted)
    => \A i \in 1..Len(probes) :
           ( /\ FilterOf(probes[i]) = PatStarX
             /\ probes[i].query \in {<<"a", "b", ".", "x">>, <<"a", ".", "x">>} )
           => probes[i].matched

\* the query holds an index in brackets straight after its first byte
IndexFollows(query) == Len(query) >= 2 /\ query[2] = "["

\* the digits between the brackets of the query a[digits]...
IndexDigits(query) == SubSeq(query, 3, Smallest(Occurrences(query, <<"]">>)))

\* C10: pattern a[*] matches a query a[k]... whatever the index k and however
\* many digits it has; pattern a[1] matches such a query only when k is 1;
\* and pattern a[*] does not match a query with no index after the a.
C10_IndexWildcard ==
    (last.op = "feed" /\ ~halted)
    => \A i \in 1..Len(probes) :
           /\ (FilterOf(probes[i]) = PatIndex /\ probes[i].query[1] = "a"
               /\ IndexFollows(probes[i].query))
                  => probes[i].matched
           /\ (FilterOf(probes[i]) = PatIndexOne /\ probes[i].query[1] = "a"
               /\ IndexFollows(probes[i].query))
                  => (probes[i].matched <=> IndexDigits(probes[i].query) = <<"1">>)
           /\ (FilterOf(probes[i]) = PatIndex /\ ~IndexFollows(probes[i].query))
                  => ~probes[i].matched


\* C11: no call of StreamJson::feed reads or pops the top of an empty
\* state_stack_, whatever the bytes fed.
C11_EmptyStackUntouched == ub \cap {"empty_back", "empty_pop"} = {}


\* the span a JsonValue is constructed from: the bytes data[0..size-1]
SpanOf(c) == SubSeq(c.data, 1, c.size)

\* s is k spaces followed by the word w
SpacesThen(s, w) ==
    /\ Len(s) >= Len(w)
    /\ \A k \in 1..(Len(s) - Len(w)) : s[k] = " "
    /\ SubSeq(s, Len(s) - Len(w) + 1, Len(s)) = w

\* C12: a JsonValue constructed from bytes that hold a pair of double quotes
\* has type STRING and holds the text between the first quote and the next,
\* whatever that text is.
C12_QuotesFirst ==
    classified.done
    => \A i, j \in 0..classified.size :
           ( /\ i < j
             /\ classified.data[i + 1] = "\"" /\ classified.data[j + 1] = "\""
             /\ \A k \in 0..(j - 1) : k # i => classified.data[k + 1] # "\"" )
           => classified.value = StringValue(SubSeq(classified.data, i + 2, j))

\* C12 happens: the bytes "42" were classified
C12_Witness ==
    classified.done /\ classified.size = 3
    /\ classified.data = <<"\"", "4", "2", "\"">>

\* C13: a JsonValue constructed from true, True or TRUE, also after leading
\* spaces, is Boolean(true); from false, False or FALSE it is Boolean(false).
C13_BooleanCasing ==
    classified.done
    => /\ (\E w \in {<<"t","r","u","e">>, <<"T","r","u","e">>, <<"T","R","U","E">>} :
               SpacesThen(SpanOf(classified), w))
          => classified.value = BooleanValue(TRUE)
       /\ (\E w \in {<<"f","a","l","s","e">>, <<"F","a","l","s","e">>,
                     <<"F","A","L","S","E">>} :
               SpacesThen(SpanOf(classified), w))
          => classified.value = BooleanValue(FALSE)

\* C13 happens: the span TRUE after two spaces was classified
C13_Witness ==
    classified.done
    /\ SpanOf(classified) = <<" ", " ", "T", "R", "U", "E">>

\* s is one or more digits
IsDigits(s) == Len(s) >= 1 /\ \A k \in 1..Len(s) : IsDigit(s[k])

\* s is digits, or digits, a point and digits
IsUnsigned(s) ==
    \/ IsDigits(s)
    \/ \E k \in 2..(Len(s) - 1) :
           s[k] = "." /\ IsDigits(SubSeq(s, 1, k - 1))
                      /\ IsDigits(SubSeq(s, k + 1, Len(s)))

\* s is a numeric literal, with spaces before or after it
IsNumericLiteral(s) ==
    \E i, j \in 1..Len(s) :
        /\ i <= j
        /\ \A k \in 1..Len(s) : (k < i \/ k > j) => s[k] = " "
        /\ \/ IsUnsigned(SubSeq(s, i, j))
           \/ s[i] = "-" /\ IsUnsigned(SubSeq(s, i + 1, j))

\* s is one of the six boolean spellings, with spaces before it
IsBooleanSpelling(s) ==
    \E w \in {<<"t","r","u","e">>, <<"T","r","u","e">>, <<"T","R","U","E">>,
              <<"f","a","l","s","e">>, <<"F","a","l","s","e">>,
              <<"F","A","L","S","E">>} : SpacesThen(s, w)

\* C14: a JsonValue constructed from a span that holds no quote and is
\* neither a boolean spelling nor a numeric literal has type INVALID.
C14_InvalidOtherwise ==
    ( /\ classified.done
      /\ QuotePositions(classified.data, classified.size) = {}
      /\ ~IsBooleanSpelling(SpanOf(classified))
      /\ ~IsNumericLiteral(SpanOf(classified)) )
    => classified.value = InvalidValue


\* what listener i of the MultiListener would have gone through had it been
\* the parser's listener itself
Solo(i) == Deliver(Multi(<<FreshListener(listeners_[i].filter_)>>), events, 1)

\* the entries of a log that listener i made, as the only listener would
\* have made them
LogOf(log, i) ==
    LET Mine(c) == c.listener = i
        mine == SelectSeq(log, Mine)
    IN  [k \in 1..Len(mine) |-> [mine[k] EXCEPT !.listener = 1]]

\* the number of value events among the events delivered
ValueEvents == Cardinality({k \in 1..Len(events) : events[k].ev = "value"})

\* C15: after a feed through a MultiListener every listener is in the state,
\* and has made the callbacks and composed the queries, that the same events
\* delivered to it alone produce; every value event went to every listener
\* once, in the order of listeners_, before the next event went to any.
C15_EachListenerInOrder ==
    (last.op = "feed" /\ ~halted /\ listeners_ # <<>>)
    => /\ \A i \in 1..Len(listeners_) :
              /\ listeners_[i] = Solo(i).listeners_[1]
              /\ LogOf(calls, i) = Solo(i).calls
              /\ LogOf(probes, i) = Solo(i).probes
       /\ Len(probes) = ValueEvents * Len(listeners_)
       /\ \A k \in 1..Len(probes) :
              probes[k].listener = ((k - 1) % Len(listeners_)) + 1

\* C15 happens: two listeners that fire on the same value event were fed a
\* document with two values
C15_Witness ==
    /\ FedTo(DocTwoKeys, <<PatStar, PatAB>>)
    /\ Len(probes) = 4
    /\ Len(calls) >= 3


\* an AutofeedStreamJson as its constructor leaves it
FreshAssembler ==
    [parser |-> FreshParser, buffer_ |-> [k \in 1..MemSize |-> UNINIT],
     next_offset_ |-> 0, failed_ |-> FALSE]

C17_CopyStaysInBuffer == "memcpy_oob_write" \notin ub


\* byte i of d lies outside every string: an even number of quotes precede it
OutsideString(d, i) ==
    Cardinality({k \in 1..(i - 1) : d[k] = "\""}) % 2 = 0

\* the number of bare scalar literals of d: the bytes outside strings that
\* are neither delimiter nor quote and follow a delimiter
BareScalars(d) ==
    Cardinality({i \in 2..Len(d) :
                    /\ OutsideString(d, i)
                    /\ d[i] \notin Delimiters \cup {"\""}
                    /\ d[i - 1] \in Delimiters})

\* the number of strings of d that follow a colon, with spaces at most between
StringValues(d) ==
    Cardinality({i \in 2..Len(d) :
                    /\ OutsideString(d, i)
                    /\ d[i] = "\""
                    /\ \E c \in 1..(i - 1) :
                           /\ d[c] = ":"
                           /\ \A k \in (c + 1)..(i - 1) : d[k] = " "})

\* C18: a well-formed document fed in one call delivers as many value events
\* as it has bare scalars and strings after a colon.
C18_OneValuePerScalar ==
    (last.op = "feed" /\ ~halted /\ doc \in FilterDocs)
    => ValueEvents = BareScalars(doc) + StringValues(doc)


\* C19: when a call of StreamJson::feed ends on a comma with IN_ARRAY on top
\* of the stack, the span is anchored at the byte after the comma: the end
\* of the bytes fed.
C19_CommaAnchorsNextElement ==
    ( /\ last.op = "feed" /\ last.call.made /\ ~halted /\ ub = {}
      /\ pos > 0 /\ doc[pos] = ","
      /\ state_stack_ # <<>>
      /\ state_stack_[Len(state_stack_)] = "IN_ARRAY" )
    => value_start_ = last.call.size


\* the offset in doc of the quote that opened the string the parser is in
OpeningQuote == Largest({0} \cup {k \in 1..pos : doc[k] = "\""})

\* the bytes of doc strictly between the opening quote and the byte at to
TextUpTo(to) == SubSeq(doc, OpeningQuote + 1, to - 1)

\* a feed, free of undefined behaviour, of a chunk that ends a string: the
\* parser is in a string and the chunk is the rest of it, up to the quote
ClosingQuoteFed ==
    /\ ~halted /\ ~failed_ /\ ub = {}
    /\ state_stack_ # <<>> /\ state_stack_[Len(state_stack_)] = "IN_STRING"
    /\ doc' = doc /\ pos' > pos
    /\ doc[pos'] = "\""
    /\ \A k \in (pos + 1)..(pos' - 1) : doc[k] # "\""
    /\ ~halted' /\ ub' = {}

\* C20: the closing quote delivers one event: with after_colon_ set a value
\* of kind String holding the bytes between the quotes, and after_colon_ is
\* cleared; otherwise a key holding the bytes between the quotes.
C20_ClosingQuote ==
    [][ClosingQuoteFed
       => /\ Len(events') = Len(events) + 1
          /\ after_colon_' = FALSE
          /\ events'[Len(events')] =
                 IF after_colon_ THEN ValueEvent(StringValue(TextUpTo(pos')))
                 ELSE KeyEvent(TextUpTo(pos'))]_vars

\* C20 happens: the string element of ["a",1] has been closed, no colon
\* before it, and a key event delivered for it
C20_Witness ==
    /\ doc = DocMixed /\ pos = 4
    /\ last.op = "feed" /\ last.from >= 2
    /\ ~halted /\ ub = {}
    /\ events # <<>>
    /\ events[Len(events)] = KeyEvent(<<"a">>)


\* the parser is in a string: IN_STRING is on top of the stack
InString == state_stack_ # <<>> /\ state_stack_[Len(state_stack_)] = "IN_STRING"

\* a feed, free of undefined behaviour, of a chunk without a quote to a
\* parser that is in a string
StringBytesFed ==
    /\ ~halted /\ ~failed_ /\ InString
    /\ doc' = doc /\ pos' > pos
    /\ \A k \in (pos + 1)..pos' : doc[k] # "\""
    /\ ~halted' /\ ub' = {}

\* C21: bytes other than the quote fed while IN_STRING is on top, the
\* structural bytes among them, deliver no event and leave state_stack_ and
\* after_colon_ as they were.
C21_StringBytesOpaque ==
    [][StringBytesFed
       => /\ events' = events
          /\ state_stack_' = state_stack_
          /\ after_colon_' = after_colon_]_vars

\* C21 happens: the comma of the string value "}," was fed by itself while
\* the parser was in that string, the colon flag set
C21_Witness ==
    /\ doc = DocOpaque /\ pos = 8
    /\ last.op = "feed" /\ last.from = 7 /\ last.call.made
    /\ ~halted /\ ub = {}
    /\ InString /\ after_colon_


\* byte c can be part of a bare scalar
ScalarByte(c) == c \notin Delimiters \cup {"\""}

\* the kinds of the events from the n-th on
KindsAfter(es, n) == [k \in 1..(Len(es) - n) |-> es[n + k].ev]

\* the state on top of a non-empty stack, NONE for an empty one
Top == IF state_stack_ = <<>> THEN "NONE" ELSE state_stack_[Len(state_stack_)]

\* a feed, free of undefined behaviour, that ends a pending bare scalar: a
\* span is pending outside a string, the chunk is the rest of the scalar and
\* the delimiter d after it, and the scalar has at least one byte
ScalarEndedBy(d) ==
    /\ ~halted /\ ~failed_ /\ ~InString
    /\ value_start_ # nullptr
    /\ doc' = doc /\ pos' > pos
    /\ doc[pos'] = d
    /\ \A k \in (pos + 1)..(pos' - 1) : ScalarByte(doc[k])
    /\ pos' - 1 > pos \/ (pos >= 1 /\ ScalarByte(doc[pos]))
    /\ ~halted' /\ ub' = {}

\* C22: the delimiter that ends a pending bare scalar delivers the value
\* first and its own event second: value, array_next_element for a comma in
\* an array; value, object_end for } after a colon; value, array_end for ].
C22_ValueBeforeStructure ==
    [][ /\ (ScalarEndedBy(",") /\ Top = "IN_ARRAY"
            => KindsAfter(events', Len(events)) = <<"value", "array_next_element">>)
        /\ (ScalarEndedBy("}") /\ Top = "IN_OBJECT" /\ after_colon_
            => KindsAfter(events', Len(events)) = <<"value", "object_end">>)
        /\ (ScalarEndedBy("]") /\ Top = "IN_ARRAY"
            => KindsAfter(events', Len(events)) = <<"value", "array_end">>) ]_vars

\* C22 happens: the comma after the first element of [1,2] was fed by itself
C22_Witness ==
    /\ doc = DocArray /\ pos = 3
    /\ last.op = "feed" /\ last.from = 2 /\ last.call.made
    /\ ~halted /\ ub = {}
    /\ KindsAfter(events, 0) = <<"array_start", "value", "array_next_element">>


\* a feed, free of undefined behaviour, of a chunk that ends with the closer
\* d, scalar bytes at most before it, to a parser outside a string
CloserFed(d) ==
    /\ ~halted /\ ~failed_ /\ ~InString
    /\ doc' = doc /\ pos' > pos
    /\ doc[pos'] = d
    /\ \A k \in (pos + 1)..(pos' - 1) : ScalarByte(doc[k])
    /\ ~halted' /\ ub' = {}

\* C23: } with IN_ARRAY on top, and ] with IN_OBJECT on top, deliver neither
\* object_end nor array_end and leave state_stack_ as it was.
C23_MismatchedCloser ==
    [][(CloserFed("}") /\ Top = "IN_ARRAY") \/ (CloserFed("]") /\ Top = "IN_OBJECT")
       => /\ state_stack_' = state_stack_
          /\ \A k \in 1..(Len(events') - Len(events)) :
                 KindsAfter(events', Len(events))[k] \notin {"object_end", "array_end"}]_vars

\* C23 happens: the } of [1}] was fed by itself with IN_ARRAY on top, which
\* is still there
C23_Witness ==
    /\ doc = DocWrongBrace /\ pos = 3
    /\ last.op = "feed" /\ last.from = 2 /\ last.call.made
    /\ ~halted /\ ub = {}
    /\ state_stack_ = <<"IN_ARRAY">>


\* the events that open and that close a container
Starts == {"object_start", "array_start"}
Ends == {"object_end", "array_end"}

\* how many containers events i..j open, less how many they close
Opened(i, j) ==
    Cardinality({k \in i..j : events[k].ev \in Starts})
    - Cardinality({k \in i..j : events[k].ev \in Ends})

\* event j is the end event of the container that event i starts
Closes(i, j) ==
    /\ 1 <= i /\ i < j /\ j <= Len(events)
    /\ \/ events[i].ev = "object_start" /\ events[j].ev = "object_end"
       \/ events[i].ev = "array_start" /\ events[j].ev = "array_end"
    /\ Opened(i + 1, j - 1) = 0
    /\ \A m \in (i + 1)..(j - 1) : Opened(i + 1, m) >= 0

\* the first listener as it was after the first k events
ListenerAfter(k) ==
    Deliver(Multi(<<FreshListener(listeners_[1].filter_)>>), SubSeq(events, 1, k), 1)
        .listeners_[1]

\* C24: after the end event of a container aggregate_key_ is what it was
\* before the start event of that container.
C24_PathRestored ==
    (last.op = "event" /\ ~halted)
    => \A i \in 1..Len(events) :
           Closes(i, Len(events))
           => listeners_[1].aggregate_key_ = ListenerAfter(i - 1).aggregate_key_


\* the query for a value that follows events k..n, each a key or the start of
\* an object: the keys under which the objects were opened, a "." after
\* each, then the pending key; acc is the query so far
RECURSIVE KeySegments(_, _, _, _)
KeySegments(k, n, pending, acc) ==
    IF k > n THEN acc \o pending
    ELSE IF events[k].ev = "key"
    THEN KeySegments(k + 1, n, events[k].text, acc)
    ELSE KeySegments(k + 1, n, <<>>,
                     IF pending = <<>> THEN acc ELSE acc \o pending \o <<".">>)

\* the events so far are an anonymous object, keys and objects inside it,
\* and then a value
ValueUnderObjects ==
    /\ last.op = "event" /\ ~halted
    /\ Len(events) >= 2
    /\ events[1].ev = "object_start"
    /\ events[Len(events)].ev = "value"
    /\ \A k \in 1..(Len(events) - 1) : events[k].ev \in {"key", "object_start"}

\* C25: the query FilterListener::on_value matches is the path without the
\* placeholders of the anonymous objects: every key under which an object
\* was opened, then the pending key, each as delivered.
C25_OnlyPlaceholdersRemoved ==
    ValueUnderObjects
    => /\ Len(probes) = Len(listeners_)
       /\ probes[1].query = KeySegments(1, Len(events) - 1, <<>>, <<>>)


\* the array_start events before event j whose arrays are open at event j
OpenArrays(j) ==
    {i \in 1..(j - 1) :
        /\ events[i].ev = "array_start"
        /\ ~\E k \in (i + 1)..(j - 1) : Closes(i, k)}

\* the position at event j of the current element of the array that event i
\* starts: the array_next_element events between them that belong to that
\* array, every container opened after i being closed again
PositionIn(i, j) ==
    Cardinality({k \in (i + 1)..(j - 1) :
                    /\ events[k].ev = "array_next_element"
                    /\ Opened(i + 1, k - 1) = 0})

\* the members of the set of numbers S in increasing order
Ascending(S) ==
    CHOOSE s \in [1..Cardinality(S) -> S] :
        \A a, b \in 1..Cardinality(S) : a < b => s[a] < s[b]

\* the positions at event j of the current elements of the open arrays,
\* outermost array first
CurrentPositions(j) ==
    [n \in 1..Cardinality(OpenArrays(j)) |->
        PositionIn(Ascending(OpenArrays(j))[n], j)]

\* the index in events of the v-th value event
ValueEventAt(v) ==
    CHOOSE j \in 1..Len(events) :
        /\ events[j].ev = "value"
        /\ Cardinality({k \in 1..j : events[k].ev = "value"}) = v

\* the callback that probe p made: probes and calls are in the same order
CallOf(p) == calls[Cardinality({q \in 1..p : probes[q].matched})]

\* C26: every callback made while a well-formed document is fed receives an
\* index stack with one entry for each array open at its value, outermost
\* first, each the position of the current element of its array.
C26_IndexStackAtCallback ==
    (last.op = "feed" /\ ~halted /\ doc \in FilterDocs /\ listeners_ # <<>>)
    => \A p \in 1..Len(probes) :
           probes[p].matched
           => CallOf(p).depths
              = CurrentPositions(ValueEventAt(((p - 1) \div Len(listeners_)) + 1))

\* C26 happens: the callback for the 3 of {"a":[[1],[2,3]]}, second element
\* of the second element, was made
C26_Witness ==
    /\ FedTo(DocMatrix, <<PatIndex>>)
    /\ Len(calls) = 3
    /\ calls[3].depths = <<1, 1>>


\* the containers open after events k.., given those open before (innermost
\* last): <<"BAD">> once an end event does not match the innermost open
\* container or array_next_element arrives while that is not an array
RECURSIVE OpenAfter(_, _)
OpenAfter(k, open) ==
    IF k > Len(events) \/ open = <<"BAD">> THEN open
    ELSE LET e == events[k].ev
             inner == IF open = <<>> THEN "NONE" ELSE open[Len(open)]
         IN  CASE e \in Starts -> OpenAfter(k + 1, Append(open, e))
               [] e = "object_end" ->
                    IF inner = "object_start"
                    THEN OpenAfter(k + 1, SubSeq(open, 1, Len(open) - 1))
                    ELSE <<"BAD">>
               [] e = "array_end" ->
                    IF inner = "array_start"
                    THEN OpenAfter(k + 1, SubSeq(open, 1, Len(open) - 1))
                    ELSE <<"BAD">>
               [] e = "array_next_element" ->
                    IF inner = "array_start" THEN OpenAfter(k + 1, open) ELSE <<"BAD">>
               [] OTHER -> OpenAfter(k + 1, open)

\* the events so far are nested as a parser nests them and no key holds a
\* "." or a "["
NestedEvents ==
    /\ last.op = "event" /\ ~halted
    /\ OpenAfter(1, <<>>) # <<"BAD">>
    /\ \A k \in 1..Len(events) :
           \A n \in 1..Len(events[k].text) : events[k].text[n] \notin {".", "["}

\* the number the digits ds spell
RECURSIVE ToNumber(_)
ToNumber(ds) ==
    IF ds = <<>> THEN 0
    ELSE 10 * ToNumber(SubSeq(ds, 1, Len(ds) - 1)) + DigitVal(ds[Len(ds)])

\* the index written in path after the "[" at zero-based position p
IndexAt(path, p) ==
    ToNumber(SubSeq(path, p + 2, Smallest({q \in Occurrences(path, <<"]">>) : q > p})))

\* the bracketed indices of path, left to right
BracketedIndices(path) ==
    [n \in 1..Cardinality(Occurrences(path, <<"[">>)) |->
        IndexAt(path, Ascending(Occurrences(path, <<"[">>))[n])]

\* path up to its last "["
BeforeLastBracket(path) == SubSeq(path, 1, Largest(Occurrences(path, <<"[">>)))

\* the number of "." in path
Dots(path) == Cardinality(Occurrences(path, <<".">>))

\* what the event just handled did to listener now, which was before: if it
\* was array_next_element, the top index is one more, the others are the
\* same, and the path is the same up to its last "[" with as many segments
NextElementRewrites(before, now) ==
    events[Len(events)].ev = "array_next_element"
    => /\ Len(now.array_depth_) = Len(before.array_depth_)
       /\ \A n \in 1..Len(now.array_depth_) :
              now.array_depth_[n] = before.array_depth_[n]
                                    + (IF n = Len(now.array_depth_) THEN 1 ELSE 0)
       /\ BeforeLastBracket(now.aggregate_key_) = BeforeLastBracket(before.aggregate_key_)
       /\ Dots(now.aggregate_key_) = Dots(before.aggregate_key_)

\* C27: with keys free of "." and "[", after every event the bracketed
\* indices of aggregate_key_, left to right, are the entries of array_depth_;
\* array_next_element adds one to the top entry and rewrites the last
\* bracketed index only, adding no segment.
C27_IndicesMirrorStack ==
    NestedEvents
    => /\ BracketedIndices(listeners_[1].aggregate_key_) = listeners_[1].array_depth_
       /\ NextElementRewrites(ListenerAfter(Len(events) - 1), listeners_[1])

\* C27 happens: array_next_element has moved an inner array, itself the
\* second element of an array, to its second element
C27_Witness ==
    /\ NestedEvents
    /\ events[Len(events)].ev = "array_next_element"
    /\ listeners_[1].array_depth_ = <<1, 1>>


\* a plain JSONListener after events k.. of the events so far
RECURSIVE PlainAfter(_, _)
PlainAfter(l, k) ==
    IF k > Len(events) THEN l ELSE PlainAfter(JSONListenerEvent(l, events[k]), k + 1)

\* the members a FilterListener inherits from JSONListener
Inherited(l) == <<l.key_, l.aggregate_key_, l.array_depth_>>

\* C28: after every sequence of events each FilterListener, whatever its
\* pattern and whether or not its callback fired, has the key_,
\* aggregate_key_ and array_depth_ of a plain JSONListener given the same
\* events, and key_ is empty after a value event.
C28_FilterKeepsListenerState ==
    (last.op = "event" /\ ~halted)
    => \A i \in 1..Len(listeners_) :
           /\ Inherited(listeners_[i]) = Inherited(PlainAfter(FreshListener(<<>>), 1))
           /\ events[Len(events)].ev = "value" => listeners_[i].key_ = <<>>

\* C28 happens: a value that had a pending key made the callback of the
\* first listener fire and not that of the second
C28_Witness ==
    /\ last.op = "event" /\ ~halted
    /\ Len(events) >= 2
    /\ events[Len(events)].ev = "value"
    /\ events[Len(events) - 1].ev = "key"
    /\ Len(probes) = 2
    /\ probes[1].matched /\ ~probes[2].matched
    /\ Len(calls) = 1


\* the decimal number the digits of s spell, read in order, other bytes skipped
DigitsNumber(s) == ToNumber(SelectSeq(s, IsDigit))

\* C29: a JsonValue constructed from a span of digits, spaces and '-', with
\* at least one digit, is the Integer its digits spell in order, negative if
\* and only if the span holds a '-' at any place.
C29_DigitsSpacesMinus ==
    ( /\ classified.done
      /\ \A k \in 1..classified.size :
             IsDigit(classified.data[k]) \/ classified.data[k] \in {" ", "-"}
      /\ \E k \in 1..classified.size : IsDigit(classified.data[k]) )
    => classified.value =
           IntegerValue(IF \E k \in 1..classified.size : classified.data[k] = "-"
                        THEN 0 - DigitsNumber(SpanOf(classified))
                        ELSE DigitsNumber(SpanOf(classified)))

\* C29 happens: the span 4-2 was classified, as -42
C29_Witness ==
    /\ classified.done
    /\ SpanOf(classified) = <<"4", "-", "2">>
    /\ classified.value = IntegerValue(0 - 42)


\* IN_STRING occurs in state_stack_ on top at most
StringOnTopOnly ==
    \A k \in 1..(Len(state_stack_) - 1) : state_stack_[k] # "IN_STRING"

\* a feed, free of undefined behaviour, of one byte to a parser in a string
ByteFedInString ==
    /\ ~halted /\ ~failed_ /\ InString
    /\ doc' = doc /\ pos' = pos + 1
    /\ ~halted' /\ ub' = {}

\* C30: state_stack_ holds IN_STRING on top or not at all; a byte fed while
\* it is on top leaves state_stack_ alone unless it is the quote, which pops
\* IN_STRING and pushes nothing.
C30_OneStringFrame ==
    /\ [](~halted => StringOnTopOnly)
    /\ [][ByteFedInString
          => state_stack_' = IF doc[pos'] = "\""
                             THEN SubSeq(state_stack_, 1, Len(state_stack_) - 1)
                             ELSE state_stack_]_vars

\* C30 happens: a byte of the string element of ["a",1] was fed by itself
\* and IN_STRING lies on top of IN_ARRAY
C30_Witness ==
    /\ doc = DocMixed /\ pos = 3
    /\ last.op = "feed" /\ last.from = 2 /\ last.call.made
    /\ ~halted /\ ub = {}
    /\ state_stack_ = <<"IN_ARRAY", "IN_STRING">>


\* the number of events of kind e delivered since construction or reset
Delivered(e) == Cardinality({k \in 1..Len(events) : events[k].ev = e})

\* the number of frames of state_stack_ that are state
Frames(state) == Cardinality({k \in 1..Len(state_stack_) : state_stack_[k] = state})

\* C31: of the events delivered since construction or reset the object_end
\* events are no more than the object_start events and the array_end events
\* no more than the array_start events; the differences are the numbers of
\* IN_OBJECT and of IN_ARRAY frames on state_stack_.
C31_EventBalance ==
    /\ Delivered("object_end") <= Delivered("object_start")
    /\ Delivered("array_end") <= Delivered("array_start")
    /\ Delivered("object_start") - Delivered("object_end") = Frames("IN_OBJECT")
    /\ Delivered("array_start") - Delivered("array_end") = Frames("IN_ARRAY")


\* a listener with empty state attached at construction or reset: it has
\* been given the events delivered since, and has halted if one of them
\* reached array_depth_.pop_back() or array_depth_.back() on an empty vector
Attached == Deliver(Multi(<<FreshListener(<<>>)>>), events, 1)

\* C32: a listener attached at construction or reset is never given
\* array_end or array_next_element while its array_depth_ is empty, and
\* array_depth_ has as many entries as state_stack_ has IN_ARRAY frames.
C32_IndexStackFollowsParser ==
    /\ ~Attached.halted
    /\ Len(Attached.listeners_[1].array_depth_) = Frames("IN_ARRAY")

=============================================================================
